---- MODULE Spec2Model ----
(***************************************************************************)
(* ZanzoCam: the exposure controller of webcam/camera.py (Camera.__init__, *)
(* take_picture, shoot_picture, _shoot_picture, process_picture) and the   *)
(* camera retry loop of webcam/main.py.                                    *)
(*                                                                         *)
(* Luminances are whole luminance units (0..255).  TARGET_LUMINANCE halves *)
(* its argument, so target luminances are carried doubled (a value T2      *)
(* stands for the target T2/2) and every comparison against a target is    *)
(* made on doubled values.                                                 *)
(***************************************************************************)
EXTENDS Integers, Sequences, FiniteSets, TLC

-----------------------------------------------------------------------------
(* Module constants of camera.py and main.py *)

MINIMUM_DAYLIGHT_LUMINANCE == 60

LUM_SPEED_PARAM_A == 600000

LUM_SPEED_PARAM_B == 60000

MIN_SHUTTER_SPEED == 30000

MAX_SHUTTER_SPEED == 3000000

TARGET_LUMINOSITY_MARGIN == 1

\* for _ in range(3)
CAMERA_ATTEMPTS == 3

\* shutter_speed: Optional[int] = None ("if shutter_speed:" treats 0 alike)
NoShutterSpeed == 0

-----------------------------------------------------------------------------
(* Bounds of the model *)

\* largest luminance a picture can have
MaxLuminance == 255

\* size of the photo the capture device writes
PhotoWidth == 64

PhotoHeight == 48

\* most slots in configuration.overlays
MaxSlots == 2

\* a luminance is a float: it is carried as a whole number of steps of
\* 1/LumScale
LumScale == 1000

\* the luminances sampled are the whole ones and up to MaxFraction steps
\* above each
MaxFraction == 2

\* the largest distance between the two whole luminances compared
MaxGap == 16

\* most shutter speeds at which a device is within the margin
MaxBand == 6

\* how far from MIN_SHUTTER_SPEED, from the first midpoint and from
\* MAX_SHUTTER_SPEED the within-margin speeds of a device begin
BandReach == 8

-----------------------------------------------------------------------------
(* Pure functions of camera.py *)

\* the quotient rounded to the nearest integer instead (halves upward)
SHUTTER_SPEED_FROM_LUMINANCE_Rounded(steps, a, b) ==
    IF steps < MINIMUM_DAYLIGHT_LUMINANCE * LumScale
    THEN IF steps = 0
         THEN [tag |-> "ZeroDivisionError", value |-> NoShutterSpeed]
         ELSE [tag |-> "int",
               value |-> b + ((2 * a * LumScale + steps) \div (2 * steps))]
    ELSE [tag |-> "None", value |-> NoShutterSpeed]

\* int(q + b) for the quotient q = n/d with d > 0 and a whole b:
\* truncation toward zero, which is q rounded down when q + b >= 0 and
\* rounded up when q + b < 0
TruncSum(n, d, b) ==
    IF b + (n \div d) >= 0 \/ n % d = 0 THEN b + (n \div d)
    ELSE b + (n \div d) + 1

\* int((a/lum) + b) if lum < MINIMUM_DAYLIGHT_LUMINANCE else None, for the
\* luminance lum = steps / LumScale: a/lum = (a * LumScale) / steps.
\* a/lum raises ZeroDivisionError for lum = 0.
SHUTTER_SPEED_FROM_LUMINANCE_Scaled(steps, a, b) ==
    IF steps < MINIMUM_DAYLIGHT_LUMINANCE * LumScale
    THEN IF steps = 0
         THEN [tag |-> "ZeroDivisionError", value |-> NoShutterSpeed]
         ELSE [tag |-> "int", value |-> TruncSum(a * LumScale, steps, b)]
    ELSE [tag |-> "None", value |-> NoShutterSpeed]

\* the same for a whole luminance
SHUTTER_SPEED_FROM_LUMINANCE(lum, a, b) ==
    SHUTTER_SPEED_FROM_LUMINANCE_Scaled(lum * LumScale, a, b)

\* a luminance of exactly MINIMUM_DAYLIGHT_LUMINANCE returned unchanged too
TARGET_LUMINANCE_DaylightFrom60(lum) ==
    IF lum >= MINIMUM_DAYLIGHT_LUMINANCE THEN 2 * lum
    ELSE IF lum < 30 THEN 2 * (lum + 30)
    ELSE lum + 90

\* lum if lum > MINIMUM_DAYLIGHT_LUMINANCE else lum+30 if lum < 30
\* else (lum/2) + 45, doubled
TARGET_LUMINANCE(lum) ==
    IF lum > MINIMUM_DAYLIGHT_LUMINANCE THEN 2 * lum
    ELSE IF lum < 30 THEN 2 * (lum + 30)
    ELSE lum + 90

\* SHUTTER_SPEED_FROM_LUMINANCE(LUMINANCE_FROM_PICTURE(photo),
\*                              LUM_SPEED_PARAM_A, LUM_SPEED_PARAM_B):
\* the names resolve to the module globals, which Camera.__init__ never
\* rebinds (its assignment at line 113 binds locals of __init__).
SHUTTER_SPEED_FROM_PICTURE(lum) ==
    SHUTTER_SPEED_FROM_LUMINANCE(lum, LUM_SPEED_PARAM_A, LUM_SPEED_PARAM_B)

\* the daylight test with > for >=
IsDaylight_Strict(lum) == lum > MINIMUM_DAYLIGHT_LUMINANCE

\* luminance >= MINIMUM_DAYLIGHT_LUMINANCE: the first shot is accepted
IsDaylight(lum) == lum >= MINIMUM_DAYLIGHT_LUMINANCE

\* only the lower side of the margin tested
WithinMargin_LowerOnly(new_lum, target2) ==
    2 * new_lum >= target2 - 2 * TARGET_LUMINOSITY_MARGIN

\* new_luminance >= target_luminance - TARGET_LUMINOSITY_MARGIN and
\* new_luminance <= target_luminance + TARGET_LUMINOSITY_MARGIN
WithinMargin(new_lum, target2) ==
    /\ 2 * new_lum >= target2 - 2 * TARGET_LUMINOSITY_MARGIN
    /\ 2 * new_lum <= target2 + 2 * TARGET_LUMINOSITY_MARGIN

\* the test of the too-dark branch turned round
TooDark_Inverted(new_lum, target2) ==
    2 * new_lum > target2 + 2 * TARGET_LUMINOSITY_MARGIN

\* new_luminance < target_luminance - TARGET_LUMINOSITY_MARGIN
TooDark(new_lum, target2) ==
    2 * new_lum < target2 - 2 * TARGET_LUMINOSITY_MARGIN

\* shutter_speed = int((min_speed + max_speed) / 2)
Midpoint(lo, hi) == (lo + hi) \div 2

\* the exit test with a slack of 10
SearchExhausted_Slack10(lo, hi) == lo + 10 > hi

\* the exit test without its slack of 5
SearchExhausted_NoSlack(lo, hi) == lo > hi

\* the exit test with >= for >
SearchExhausted_OrEqual(lo, hi) == lo + 5 >= hi

\* if min_speed + 5 > max_speed: "Search failed!", break
SearchExhausted(lo, hi) == lo + 5 > hi

-----------------------------------------------------------------------------
(* The environment: files, configuration, capture device, storage *)

\* CALIBRATION_FLAG: absent; content with "ON"; any other content; present
\* but open() raises (a directory, no permission); read() raises
FlagFiles == {"absent", "ON", "OFF", "open_error", "read_error"}

\* CALIBRATED_PARAMETERS: absent; a line "<A> <B>"; a first line that does
\* not unpack into two values, or no line; present but open() raises
ParamsFiles ==
    {[state |-> "absent", a |-> 0, b |-> 0],
     [state |-> "valid", a |-> 500000, b |-> 50000],
     [state |-> "malformed", a |-> 0, b |-> 0],
     [state |-> "open_error", a |-> 0, b |-> 0]}

\* configuration.image: the "calibrate" key is unset, or set true or false
ImageCalibrate == {"unset", "True", "False"}

\* luminance of the shot taken with no shutter override
DarkFirstLuminances == {0, 13, 30, 59}

BrightFirstLuminances == {60, MaxLuminance}

\* shutter speeds at which a monotonic device changes its answer
Thresholds ==
    {MIN_SHUTTER_SPEED, MIN_SHUTTER_SPEED + 1, 100000, 1515000,
     MAX_SHUTTER_SPEED + 1}

\* the largest whole luminance below target - margin
DarkSample(target2) == (target2 - 3) \div 2

\* the smallest whole luminance inside target +/- margin
OkSample(target2) == (target2 - 1) \div 2

\* the smallest whole luminance above target + margin
BrightSample(target2) == (target2 + 2) \div 2 + 1

\* A capture device.  Without shutter override it yields the luminance
\* "first".  With an override, a "free" device may yield a too dark, a
\* within-margin or a too bright picture at every shot; a "mono" device is a
\* deterministic non-decreasing function of the shutter speed: too dark
\* below ok_from, within margin below bright_from, too bright from there on.
\* A faulty device may raise at any shot.
MonoDevices ==
    {[kind |-> "mono", first |-> l, ok_from |-> a, bright_from |-> b,
      faulty |-> f] :
        l \in DarkFirstLuminances,
        a \in Thresholds, b \in Thresholds, f \in BOOLEAN}

Devices ==
    {d \in MonoDevices : d.ok_from <= d.bright_from}
    \cup {[kind |-> "mono", first |-> l, ok_from |-> MIN_SHUTTER_SPEED,
           bright_from |-> MIN_SHUTTER_SPEED, faulty |-> f] :
            l \in BrightFirstLuminances, f \in BOOLEAN}

\* the first midpoint of the search
FirstMidpoint == Midpoint(MIN_SHUTTER_SPEED, MAX_SHUTTER_SPEED)

\* the shutter speeds at which the within-margin band of a device begins
BandStarts ==
    {MIN_SHUTTER_SPEED + k : k \in 0..BandReach}
    \cup {FirstMidpoint - BandReach + k : k \in 0..(2 * BandReach)}
    \cup {MAX_SHUTTER_SPEED - BandReach + k : k \in 0..BandReach}
    \cup {100000, 2000000}

\* dark devices that are within the margin at 0 to MaxBand consecutive
\* shutter speeds
BandDevices ==
    {[kind |-> "mono", first |-> 13, ok_from |-> a, bright_from |-> a + w,
      faulty |-> f] :
        a \in BandStarts, w \in 0..MaxBand, f \in BOOLEAN}

FreeDevices ==
    {[kind |-> "free", first |-> l, ok_from |-> MIN_SHUTTER_SPEED,
      bright_from |-> MIN_SHUTTER_SPEED, faulty |-> FALSE] : l \in {13, 60}}

\* the luminances a shot at this shutter speed can have
ShotLuminances(dev, speed) ==
    IF speed = NoShutterSpeed THEN {dev.first}
    ELSE LET t2 == TARGET_LUMINANCE(dev.first)
         IN  IF dev.kind = "free"
             THEN {DarkSample(t2), OkSample(t2), BrightSample(t2)}
             ELSE IF speed < dev.ok_from THEN {DarkSample(t2)}
             ELSE IF speed < dev.bright_from THEN {OkSample(t2)}
             ELSE {BrightSample(t2)}

\* _shoot_picture: PiCamera(framerate=...) or camera.capture raises, or the
\* picture is written and has a luminance
Capture(dev, speed) ==
    {[raised |-> FALSE, lum |-> l] : l \in ShotLuminances(dev, speed)}
    \cup (IF dev.faulty THEN {[raised |-> TRUE, lum |-> -1]} ELSE {})

\* process_picture: the image is saved; Image.open of the temp photo fails
\* (caught, return); image.save raises
ProcessOutcomes(st) ==
    IF st = "flaky" THEN {"written", "abandoned", "raise"} ELSE {"written"}

-----------------------------------------------------------------------------
(* Camera construction and attribute lookup *)

\* main's "camera = None"
NoCamera == [exists |-> FALSE, calibrate |-> "unset", default_calibrate |-> FALSE]

\* no temp photo on disk
NoPhoto == [shutter_speed |-> NoShutterSpeed, luminance |-> -1]

\* the flag taken as set as soon as the file exists and can be read
FlagDefault_ExistsOnly(flag) ==
    [raised |-> flag = "open_error",
     calibrate |-> flag \in {"ON", "OFF"}]

\* os.path.exists(CALIBRATION_FLAG), then "with open(...)" outside the try,
\* then, inside it, "ON" in calib.read(): self.defaults["calibrate"]
FlagDefault(flag) ==
    CASE flag = "absent" -> [raised |-> FALSE, calibrate |-> FALSE]
      [] flag = "ON" -> [raised |-> FALSE, calibrate |-> TRUE]
      [] flag = "OFF" -> [raised |-> FALSE, calibrate |-> FALSE]
      [] flag = "read_error" -> [raised |-> FALSE, calibrate |-> FALSE]
      [] flag = "open_error" -> [raised |-> TRUE, calibrate |-> FALSE]

\* os.path.exists(CALIBRATED_PARAMETERS), then "with open(...)" outside the
\* try; inside it the two values are bound to locals of __init__ and logged,
\* or the exception is logged
ParamsRaises(params) == params.state = "open_error"

\* Camera.__init__: setattr of every key of configuration.image, the
\* defaults table, the calibration flag, the calibration parameters
CameraInit(flag, params, image_calibrate) ==
    LET d == FlagDefault(flag)
    IN  IF d.raised \/ ParamsRaises(params)
        THEN [raised |-> TRUE, camera |-> NoCamera]
        ELSE [raised |-> FALSE,
              camera |-> [exists |-> TRUE, calibrate |-> image_calibrate,
                          default_calibrate |-> d.calibrate]]

\* self.calibrate: the instance attribute set from configuration.image if
\* there is one, else __getattr__: self.defaults.get("calibrate")
Calibrate(cam) ==
    IF cam.calibrate = "unset" THEN cam.default_calibrate
    ELSE cam.calibrate = "True"

\* take_picture swallowing the exception and going on to process_picture
AfterRaise_Swallowed == "process"

\* take_picture and shoot_picture catch nothing: an exception reaches the
\* except clause of main's loop
AfterRaise == "except"

-----------------------------------------------------------------------------
(* Overlays and the compositor: Overlay.__init__, Overlay.compute_position
   and the canvas of Camera.process_picture *)

\* the quotient rounded down instead
TruncDiv_Floor(n, d) == n \div d

\* int(x) of a quotient n/d with d > 0: truncation toward zero
TruncDiv(n, d) == IF n >= 0 THEN n \div d ELSE -((-n) \div d)

\* str.lower() on the words of the position labels below
Lower(word) ==
    CASE word = "Bottom" -> "bottom"
      [] word = "Center" -> "center"
      [] OTHER -> word

\* A position label is carried as the list position.split("_") gives.
\* top_left, top_center, bottom_right, Bottom_Center; diagonal_left, top,
\* top_middle
PositionLabels ==
    {<<"top", "left">>, <<"top", "center">>, <<"bottom", "right">>,
     <<"Bottom", "Center">>, <<"diagonal", "left">>, <<"top">>,
     <<"top", "middle">>}

\* The data of a slot: its "type" ("" when missing or not a string), what
\* create_text_overlay / create_image_overlay does with it ("ok": an image
\* of width x height; "none": it logs its own exception and returns None;
\* "raise": the exception leaves it, as IMAGE_OVERLAYS_PATH / self.path
\* does without a path), and its "over_the_picture"
SlotData ==
    {[type |-> "text", render |-> "ok", width |-> 10, height |-> 20,
      over_the_picture |-> o] : o \in BOOLEAN}
    \cup {[type |-> "image", render |-> "ok", width |-> 71, height |-> 30,
            over_the_picture |-> o] : o \in BOOLEAN}
    \cup {[type |-> "", render |-> "ok", width |-> 10, height |-> 20,
            over_the_picture |-> FALSE],
          [type |-> "video", render |-> "ok", width |-> 10, height |-> 20,
            over_the_picture |-> FALSE],
          [type |-> "text", render |-> "none", width |-> 10, height |-> 20,
            over_the_picture |-> FALSE],
          [type |-> "image", render |-> "raise", width |-> 71, height |-> 30,
            over_the_picture |-> FALSE]}

Slots ==
    {[position |-> p, data |-> d] : p \in PositionLabels, d \in SlotData}

\* configuration.overlays: a dict, so no two slots with the same key, in
\* insertion order
OverlayConfigs(most) ==
    {c \in UNION {[1..n -> Slots] : n \in 0..most} :
        \A j, k \in DOMAIN c : j # k => c[j].position # c[k].position}

\* the overlays of the runs that are not about overlays
PlainOverlays ==
    <<[position |-> <<"top", "left">>,
       data |-> [type |-> "text", render |-> "ok", width |-> 10,
                 height |-> 20, over_the_picture |-> FALSE]]>>

\* an overlay that contributes nothing: why
Dropped(why) ==
    [status |-> why, vertical_position |-> "", horizontal_position |-> "",
     width |-> 0, height |-> 0, over_the_picture |-> FALSE]

\* the vertical word taken as good whatever it is
PositionOk_AnyVertical(words) ==
    /\ Len(words) = 2
    /\ Lower(words[2]) \in {"left", "center", "right"}

\* position.lower().split("_") unpacks into two words, the first top or
\* bottom, the second left, center or right
PositionOk(words) ==
    /\ Len(words) = 2
    /\ Lower(words[1]) \in {"top", "bottom"}
    /\ Lower(words[2]) \in {"left", "center", "right"}

\* Overlay(position, data, ...) as process_picture sees it.
\* "position": the except clause calls log() with two arguments, whose
\*   TypeError leaves __init__ and is caught by process_picture.
\* "no_type": __init__ returns before rendered_image and defaults are set;
\*   process_picture's overlay.rendered_image then recurses in __getattr__
\*   and the RecursionError is caught by process_picture.
\* "unknown_type": the log_error line names the undefined "kind"; the
\*   NameError is caught by process_picture.
\* "render_raised": caught by process_picture.
\* "not_rendered": rendered_image is None, the overlay is not appended.
Overlay(slot) ==
    IF ~PositionOk(slot.position) THEN Dropped("position")
    ELSE IF slot.data.type = "" THEN Dropped("no_type")
    ELSE IF slot.data.type \notin {"text", "image"} THEN Dropped("unknown_type")
    ELSE IF slot.data.render = "raise" THEN Dropped("render_raised")
    ELSE IF slot.data.render = "none" THEN Dropped("not_rendered")
    ELSE [status |-> "rendered",
          vertical_position |-> Lower(slot.position[1]),
          horizontal_position |-> Lower(slot.position[2]),
          width |-> slot.data.width,
          height |-> slot.data.height,
          over_the_picture |-> slot.data.over_the_picture]

\* the loop over the slots given up at the first slot that is skipped
RenderedOverlays_StopAtFirst(ovs) ==
    LET made == [k \in DOMAIN ovs |-> Overlay(ovs[k])]
        bad == {k \in DOMAIN ovs : made[k].status # "rendered"}
        n == IF bad = {} THEN Len(ovs)
             ELSE (CHOOSE k \in bad : \A j \in bad : k <= j) - 1
    IN  SubSeq(made, 1, n)

\* rendered_overlays: the overlays appended, in the order of the dict
RenderedOverlays(ovs) ==
    SelectSeq([k \in DOMAIN ovs |-> Overlay(ovs[k])],
              LAMBDA o : o.status = "rendered")

\* max(...) over the heights, from 0
MaxOf(S) == CHOOSE m \in S \cup {0} : \A x \in S \cup {0} : x <= m

\* the overlays over the picture counted too
BorderTop_CountsOver(rendered) ==
    MaxOf({rendered[k].height : k \in
            {j \in DOMAIN rendered : rendered[j].vertical_position = "top"}})

\* border_top / border_bottom: "top" overlays that are not over the picture
\* raise border_top, all the other ones not over the picture border_bottom
BorderTop(rendered) ==
    MaxOf({rendered[k].height : k \in
            {j \in DOMAIN rendered : /\ ~rendered[j].over_the_picture
                                     /\ rendered[j].vertical_position = "top"}})

BorderBottom(rendered) ==
    MaxOf({rendered[k].height : k \in
            {j \in DOMAIN rendered : /\ ~rendered[j].over_the_picture
                                     /\ rendered[j].vertical_position # "top"}})

\* an overlay over the picture placed as one that is not
compute_position_IgnoresOver(ov, image_width, image_height, border_top, border_bottom) ==
    LET x == CASE ov.horizontal_position = "left" -> 0
               [] ov.horizontal_position = "right" -> image_width - ov.width
               [] ov.horizontal_position = "center" ->
                      TruncDiv(image_width - ov.width, 2)
               [] OTHER -> 0
        y == CASE ov.vertical_position = "top" -> 0
               [] ov.vertical_position = "bottom" -> image_height - ov.height
               [] OTHER -> 0
    IN  <<x, y>>

\* Overlay.compute_position
compute_position(ov, image_width, image_height, border_top, border_bottom) ==
    LET x == CASE ov.horizontal_position = "left" -> 0
               [] ov.horizontal_position = "right" -> image_width - ov.width
               [] ov.horizontal_position = "center" ->
                      TruncDiv(image_width - ov.width, 2)
               [] OTHER -> 0
        y == CASE ov.vertical_position = "top" ->
                      IF ov.over_the_picture THEN border_top ELSE 0
               [] ov.vertical_position = "bottom" ->
                      IF ov.over_the_picture
                      THEN image_height - ov.height - border_bottom
                      ELSE image_height - ov.height
               [] OTHER -> 0
    IN  <<x, y>>

\* no processed image on disk
NoCanvas ==
    [width |-> 0, height |-> 0, border_top |-> 0, border_bottom |-> 0,
     photo_at |-> <<0, 0>>, pastes |-> <<>>]

\* process_picture from "Create the overlay images" to image.save: the
\* canvas, the place of the photo and the overlays pasted, in order
ProcessedImage(ovs, photo_width, photo_height) ==
    LET rendered == RenderedOverlays(ovs)
        border_top == BorderTop(rendered)
        border_bottom == BorderBottom(rendered)
        total_height == photo_height + border_top + border_bottom
    IN  [width |-> photo_width,
         height |-> total_height,
         border_top |-> border_top,
         border_bottom |-> border_bottom,
         photo_at |-> <<0, border_top>>,
         pastes |-> [k \in DOMAIN rendered |->
                       [at |-> compute_position(rendered[k], photo_width,
                                   total_height, border_top, border_bottom),
                        width |-> rendered[k].width,
                        height |-> rendered[k].height,
                        vertical_position |-> rendered[k].vertical_position,
                        horizontal_position |-> rendered[k].horizontal_position,
                        over_the_picture |-> rendered[k].over_the_picture]]]

\* the overlays applied although the photo could not be opened
ImageAfter_AlwaysWritten(outcome, image_file, ovs) ==
    ProcessedImage(ovs, PhotoWidth, PhotoHeight)

\* the processed image file after process_picture: image.save writes it,
\* the return after a failed Image.open leaves what was there
ImageAfter(outcome, image_file, ovs) ==
    IF outcome = "written"
    THEN ProcessedImage(ovs, PhotoWidth, PhotoHeight)
    ELSE image_file

-----------------------------------------------------------------------------
(* main's collaborators and its no_errors flag *)

\* every collaborator of main reports success: system.log_general_status,
\* system.set_locale, configuration.load_configuration_from_disk,
\* system.apply_system_settings, config.within_active_hours,
\* server.update_configuration (no new configuration), the
\* apply_system_settings of a new configuration,
\* server.download_overlay_images, server.upload_picture,
\* camera.cleanup_image_files, config.restore_backup
AllOk ==
    [log_general_status |-> TRUE,
     set_locale |-> TRUE,
     load_configuration |-> "ok",
     apply_system_settings |-> TRUE,
     within_active_hours |-> "True",
     update_configuration |-> "none",
     apply_new_settings |-> TRUE,
     download_overlay_images |-> "True",
     upload_picture |-> "True",
     cleanup_image_files |-> "True",
     restore_backup |-> "True"]

\* no_errors = <what the step returned>: the value before is lost
Assign(no_errors, value) == value

\* errors_str: "with errors" if not no_errors or restore_required;
\* restore_required is False from line 38 on and never assigned again
FinalLine(no_errors) ==
    IF ~no_errors THEN "with errors" ELSE "successfully"

\* the outer "except Exception": no_errors = False, then, if config is
\* bound, no_errors = config.restore_backup(), whose own exception is
\* caught with no_errors left as it is
OuterExcept(st, config_bound) ==
    IF config_bound /\ st.restore_backup # "raise"
    THEN Assign(FALSE, st.restore_backup = "True")
    ELSE FALSE

\* main from "System check" to the camera loop: how it goes on ("loop",
\* "return" or "except"), no_errors at that point, whether config is bound,
\* and whether a step reported a failure on the way
Setup(st) ==
    LET n1 == Assign(TRUE, st.log_general_status)
        n2 == Assign(n1, st.set_locale)
        f2 == ~st.log_general_status \/ ~st.set_locale
        n3 == Assign(n2, st.apply_system_settings)
        f3 == f2 \/ ~st.apply_system_settings
        n4 == IF st.within_active_hours = "None" THEN TRUE ELSE n3
        n5 == IF st.update_configuration = "new"
              THEN Assign(n4, st.apply_new_settings) ELSE n4
        f5 == f3 \/ (st.update_configuration = "new" /\ ~st.apply_new_settings)
    IN  IF st.load_configuration = "none"
        THEN [exit |-> "return", no_errors |-> FALSE, config |-> FALSE,
              failed |-> TRUE]
        ELSE IF st.load_configuration = "raise"
        THEN [exit |-> "except", no_errors |-> n2, config |-> FALSE,
              failed |-> TRUE]
        ELSE IF st.within_active_hours = "False"
        THEN [exit |-> "return", no_errors |-> n3, config |-> TRUE,
              failed |-> f3]
        ELSE IF st.update_configuration = "raise"
        THEN [exit |-> "except", no_errors |-> n4, config |-> TRUE,
              failed |-> TRUE]
        ELSE IF st.download_overlay_images = "raise"
        THEN [exit |-> "except", no_errors |-> n5, config |-> TRUE,
              failed |-> TRUE]
        ELSE [exit |-> "loop",
              no_errors |-> Assign(n5, st.download_overlay_images = "True"),
              config |-> TRUE,
              failed |-> f5 \/ st.download_overlay_images = "False"]

\* main from "if not camera" to the end of the try block, entered with a
\* Camera object: upload_picture and cleanup_image_files, each assigned to
\* no_errors, and the outer except when one of them raises
Deliver(st) ==
    IF st.upload_picture = "raise"
    THEN [cleaned |-> FALSE, no_errors |-> OuterExcept(st, TRUE),
          failed |-> TRUE]
    ELSE IF st.cleanup_image_files = "raise"
    THEN [cleaned |-> FALSE, no_errors |-> OuterExcept(st, TRUE),
          failed |-> TRUE]
    ELSE [cleaned |-> TRUE,
          no_errors |-> Assign(Assign(TRUE, st.upload_picture = "True"),
                               st.cleanup_image_files = "True"),
          failed |-> st.upload_picture = "False"
                      \/ st.cleanup_image_files = "False"]

-----------------------------------------------------------------------------
(* Evaluations of the pure functions *)

\* no evaluation asked for, nothing returned
NoCall == [fn |-> "none", x |-> 0, y |-> 0, a |-> 0, b |-> 0]

NoReturn == <<>>

\* TARGET_LUMINANCE at two whole luminances x <= y at most MaxGap apart
TargetCalls ==
    {[fn |-> "TARGET_LUMINANCE", x |-> x, y |-> x + d, a |-> 0, b |-> 0] :
        x \in 0..MaxLuminance, d \in 0..MaxGap}

\* the luminances sampled, in steps
SampledLuminances ==
    {k * LumScale + j : k \in 0..MaxLuminance, j \in 0..MaxFraction}

\* (A, B): the defaults, the ones of a CALIBRATED_PARAMS file, and a fit
\* with a negative offset
ParamSamples ==
    {<<LUM_SPEED_PARAM_A, LUM_SPEED_PARAM_B>>, <<500000, 50000>>,
     <<500000, -100000>>}

\* how far above x the second luminance is, in steps: up to MaxFraction
\* steps, or a whole unit
Gaps == (0..MaxFraction) \cup {LumScale}

\* SHUTTER_SPEED_FROM_LUMINANCE with the default parameters at two
\* luminances x <= y, and with the other parameters at one luminance
ShutterCalls ==
    {[fn |-> "SHUTTER_SPEED_FROM_LUMINANCE", x |-> x, y |-> x + d,
      a |-> LUM_SPEED_PARAM_A, b |-> LUM_SPEED_PARAM_B] :
        x \in SampledLuminances, d \in Gaps}
    \cup {[fn |-> "SHUTTER_SPEED_FROM_LUMINANCE", x |-> x, y |-> x,
            a |-> p[1], b |-> p[2]] :
            x \in SampledLuminances, p \in ParamSamples}

-----------------------------------------------------------------------------
VARIABLES
    flagFile,          \* state of the CALIBRATION flag file
    paramsFile,        \* state of the CALIBRATED_PARAMS file
    image,             \* the "calibrate" entry of configuration.image
    device,            \* the capture device
    storage,           \* "ok" or "flaky"
    overlays,          \* configuration.overlays, in dict order
    steps,             \* what each collaborator of main does when called
    pc,                \* where the single thread of main is
    attempt,           \* iterations of main's camera loop started
    camera,            \* main's variable "camera"
    sleeps,            \* sleep(WAIT_AFTER_CAMERA_FAIL) calls made
    succeeded,         \* the loop was left by "break"
    run,               \* "running", "aborted" or "uploaded"
    captures,          \* pictures captured by the current shoot_picture call
    luminance,         \* shoot_picture's luminance (-1: not bound)
    min_speed,         \* shoot_picture's locals of the search
    max_speed,
    target_luminance,  \* doubled
    i,
    shutter_speed,
    new_luminance,
    photo,             \* the temp photo: the shot that wrote it
    csv,               \* lines of CALIBRATION_CSV
    logged,            \* lines the current shoot_picture call appended to it
    processed,         \* process_picture in this attempt: "no", "written", "abandoned", "raised"
    raised,            \* what raised in this attempt: "none", "init", "device", "formula", "save"
    result,            \* how shoot_picture returned: "none", "daylight", "reshot", "calibrated", "search_failed"
    canvas,            \* the processed image file
    call,              \* the pure function evaluated and its arguments
    ret,               \* what it returned, for each of the two luminances
    no_errors,         \* main's no_errors
    step_failed,       \* a step of main has reported a failure
    final_line         \* "Execution completed <errors_str>": "" before it is logged

env == <<flagFile, paramsFile, image, device, storage, overlays, steps>>

flags == <<no_errors, step_failed, final_line>>

locals == <<luminance, min_speed, max_speed, target_luminance, i,
            shutter_speed, new_luminance>>

vars == <<flagFile, paramsFile, image, device, storage, overlays, steps, pc, attempt, camera,
          sleeps, succeeded, run, captures, luminance, min_speed, max_speed,
          target_luminance, i, shutter_speed, new_luminance, photo, csv,
          logged, processed, raised, result, canvas, call, ret, no_errors,
          step_failed, final_line>>

\* main's variables of the camera loop and the files, before the loop
InitCamera ==
    /\ attempt = 0
    /\ camera = NoCamera
    /\ sleeps = 0
    /\ succeeded = FALSE
    /\ run = "running"
    /\ captures = 0
    /\ luminance = -1
    /\ min_speed = NoShutterSpeed
    /\ max_speed = NoShutterSpeed
    /\ target_luminance = -1
    /\ i = 0
    /\ shutter_speed = NoShutterSpeed
    /\ new_luminance = -1
    /\ photo = NoPhoto
    /\ csv = <<>>
    /\ logged = 0
    /\ processed = "no"
    /\ raised = "none"
    /\ result = "none"
    /\ canvas = NoCanvas
    /\ ret = NoReturn
    /\ final_line = ""

\* the state before main's camera loop when every step before it has
\* reported success
InitProgram ==
    /\ pc = "main_loop"
    /\ steps = AllOk
    /\ no_errors = TRUE
    /\ step_failed = FALSE
    /\ InitCamera

Init ==
    /\ flagFile \in FlagFiles
    /\ paramsFile \in ParamsFiles
    /\ image \in ImageCalibrate
    /\ device \in Devices
    /\ storage \in {"ok", "flaky"}
    /\ overlays = PlainOverlays
    /\ call = NoCall
    /\ InitProgram

\* every sequence of too dark / within margin / too bright answers
InitSearch ==
    /\ flagFile \in {"absent", "ON", "open_error"}
    /\ paramsFile \in {p \in ParamsFiles : p.state = "absent"}
    /\ image = "unset"
    /\ device \in FreeDevices
    /\ storage = "ok"
    /\ overlays = PlainOverlays
    /\ call = NoCall
    /\ InitProgram

\* every configuration of overlays under a camera in daylight, and the plain
\* overlays under the dark ones
InitProcess ==
    /\ paramsFile \in {p \in ParamsFiles : p.state = "absent"}
    /\ image = "unset"
    /\ \/ /\ flagFile = "absent"
          /\ device \in {d \in Devices : d.first = MaxLuminance /\ ~d.faulty}
          /\ storage \in {"ok", "flaky"}
          /\ overlays \in OverlayConfigs(MaxSlots)
       \/ /\ flagFile \in {"absent", "ON"}
          /\ device \in {d \in Devices : d.first = 13}
          /\ storage = "ok"
          /\ overlays = PlainOverlays
    /\ call = NoCall
    /\ InitProgram

-----------------------------------------------------------------------------
(* main: one iteration of "for _ in range(3)" up to the call of
   take_picture: camera = Camera(config.get_camera_settings()) *)
MainAttempt ==
    /\ pc = "main_loop"
    /\ attempt < CAMERA_ATTEMPTS
    /\ attempt' = attempt + 1
    /\ LET c == CameraInit(flagFile, paramsFile, image)
       IN  IF c.raised
           THEN /\ pc' = "except"
                /\ raised' = "init"
                /\ UNCHANGED camera
           ELSE /\ pc' = "shoot"
                /\ raised' = "none"
                /\ camera' = c.camera
    /\ captures' = 0
    /\ luminance' = -1
    /\ min_speed' = NoShutterSpeed
    /\ max_speed' = NoShutterSpeed
    /\ target_luminance' = -1
    /\ i' = 0
    /\ shutter_speed' = NoShutterSpeed
    /\ new_luminance' = -1
    /\ logged' = 0
    /\ processed' = "no"
    /\ result' = "none"
    /\ UNCHANGED <<canvas, call, ret, flags>>
    /\ UNCHANGED <<env, sleeps, succeeded, run, photo, csv>>

(* shoot_picture: self._shoot_picture() with no shutter override, the
   luminance of the photo, and the daylight test *)
FirstShot ==
    /\ pc = "shoot"
    /\ \E out \in Capture(device, NoShutterSpeed) :
        IF out.raised
        THEN /\ pc' = AfterRaise
             /\ raised' = "device"
             /\ UNCHANGED <<captures, photo, luminance, result>>
        ELSE /\ captures' = captures + 1
             /\ photo' = [shutter_speed |-> NoShutterSpeed, luminance |-> out.lum]
             /\ luminance' = out.lum
             /\ raised' = raised
             /\ IF IsDaylight(out.lum)
                THEN pc' = "process" /\ result' = "daylight"
                ELSE pc' = "low_light" /\ result' = result
    /\ UNCHANGED <<canvas, call, ret, flags>>
    /\ UNCHANGED <<env, attempt, camera, sleeps, succeeded, run, min_speed,
                   max_speed, target_luminance, i, shutter_speed,
                   new_luminance, csv, logged, processed>>

(* shoot_picture, "if not self.calibrate": one corrected shutter speed and
   one more shot, not checked *)
CorrectedShot ==
    /\ pc = "low_light"
    /\ ~Calibrate(camera)
    /\ LET s == SHUTTER_SPEED_FROM_PICTURE(luminance)
       IN  IF s.tag # "int"
           THEN /\ pc' = AfterRaise
                /\ raised' = "formula"
                /\ UNCHANGED <<shutter_speed, captures, photo, result>>
           ELSE /\ shutter_speed' = s.value
                /\ \E out \in Capture(device, s.value) :
                    IF out.raised
                    THEN /\ pc' = AfterRaise
                         /\ raised' = "device"
                         /\ UNCHANGED <<captures, photo, result>>
                    ELSE /\ captures' = captures + 1
                         /\ photo' = [shutter_speed |-> s.value, luminance |-> out.lum]
                         /\ pc' = "process"
                         /\ raised' = raised
                         /\ result' = "reshot"
    /\ UNCHANGED <<canvas, call, ret, flags>>
    /\ UNCHANGED <<env, attempt, camera, sleeps, succeeded, run, luminance,
                   min_speed, max_speed, target_luminance, i, new_luminance,
                   csv, logged, processed>>

(* shoot_picture, else branch: the set-up of the binary search *)
EnterCalibration ==
    /\ pc = "low_light"
    /\ Calibrate(camera)
    /\ min_speed' = MIN_SHUTTER_SPEED
    /\ max_speed' = MAX_SHUTTER_SPEED
    /\ target_luminance' = TARGET_LUMINANCE(luminance)
    /\ i' = 0
    /\ pc' = "search"
    /\ UNCHANGED <<canvas, call, ret, flags>>
    /\ UNCHANGED <<env, attempt, camera, sleeps, succeeded, run, captures,
                   luminance, shutter_speed, new_luminance, photo, csv,
                   logged, processed, raised, result>>

(* shoot_picture: one iteration of "while True" *)
SearchIteration ==
    /\ pc = "search"
    /\ i' = i + 1
    /\ shutter_speed' = Midpoint(min_speed, max_speed)
    /\ \E out \in Capture(device, Midpoint(min_speed, max_speed)) :
        IF out.raised
        THEN /\ pc' = AfterRaise
             /\ raised' = "device"
             /\ UNCHANGED <<captures, photo, new_luminance, min_speed,
                            max_speed, csv, logged, result>>
        ELSE /\ captures' = captures + 1
             /\ photo' = [shutter_speed |-> shutter_speed', luminance |-> out.lum]
             /\ new_luminance' = out.lum
             /\ raised' = raised
             /\ IF WithinMargin(out.lum, target_luminance)
                THEN /\ csv' = Append(csv, [luminance |-> luminance,
                                            new_luminance |-> out.lum,
                                            shutter_speed |-> shutter_speed'])
                     /\ logged' = logged + 1
                     /\ pc' = "process"
                     /\ result' = "calibrated"
                     /\ UNCHANGED <<min_speed, max_speed>>
                ELSE /\ IF TooDark(out.lum, target_luminance)
                        THEN min_speed' = shutter_speed' /\ max_speed' = max_speed
                        ELSE max_speed' = shutter_speed' /\ min_speed' = min_speed
                     /\ IF SearchExhausted(min_speed', max_speed')
                        THEN pc' = "process" /\ result' = "search_failed"
                        ELSE pc' = "search" /\ result' = result
                     /\ UNCHANGED <<csv, logged>>
    /\ UNCHANGED <<canvas, call, ret, flags>>
    /\ UNCHANGED <<env, attempt, camera, sleeps, succeeded, run, luminance,
                   target_luminance, processed>>

(* take_picture: self.process_picture() after shoot_picture returned (its
   locals are gone), then main's "break" *)
ProcessPicture ==
    /\ pc = "process"
    /\ \E o \in ProcessOutcomes(storage) :
        IF o = "raise"
        THEN /\ pc' = AfterRaise
             /\ raised' = "save"
             /\ processed' = "raised"
             /\ UNCHANGED <<succeeded, canvas>>
        ELSE /\ pc' = "after_loop"
             /\ raised' = raised
             /\ processed' = o
             /\ succeeded' = TRUE
             /\ canvas' = ImageAfter(o, canvas, overlays)
    /\ luminance' = -1
    /\ min_speed' = NoShutterSpeed
    /\ max_speed' = NoShutterSpeed
    /\ target_luminance' = -1
    /\ i' = 0
    /\ shutter_speed' = NoShutterSpeed
    /\ new_luminance' = -1
    /\ UNCHANGED <<env, attempt, camera, sleeps, run, captures, photo, csv,
                   logged, result, call, ret, flags>>

(* main: except Exception: log_error, log, sleep(WAIT_AFTER_CAMERA_FAIL) *)
MainExcept ==
    /\ pc = "except"
    /\ sleeps' = sleeps + 1
    /\ pc' = "main_loop"
    /\ UNCHANGED <<canvas, call, ret, flags>>
    /\ UNCHANGED <<env, attempt, camera, succeeded, run, captures, locals,
                   photo, csv, logged, processed, raised, result>>

\* the for loop is over: by break, or range(3) is used up
LoopOver ==
    IF pc = "main_loop" THEN attempt = CAMERA_ATTEMPTS ELSE pc = "after_loop"

(* main after the loop: "if not camera: no_errors = False; return", else
   upload_picture and cleanup_image_files; then the outer except if one of
   them raised, and the finally block with the last log line *)
MainAfterLoop ==
    /\ LoopOver
    /\ pc' = "done"
    /\ IF ~camera.exists
       THEN /\ run' = "aborted"
            /\ photo' = photo
            /\ no_errors' = FALSE
            /\ step_failed' = TRUE
       ELSE /\ run' = "uploaded"
            /\ photo' = IF Deliver(steps).cleaned THEN NoPhoto ELSE photo
            /\ no_errors' = Deliver(steps).no_errors
            /\ step_failed' = (step_failed \/ ~succeeded
                                 \/ Deliver(steps).failed)
    /\ final_line' = FinalLine(no_errors')
    /\ UNCHANGED <<canvas, call, ret>>
    /\ UNCHANGED <<env, attempt, camera, sleeps, succeeded, captures, locals,
                   csv, logged, processed, raised, result>>

Next ==
    \/ MainAttempt
    \/ FirstShot
    \/ CorrectedShot
    \/ EnterCalibration
    \/ SearchIteration
    \/ ProcessPicture
    \/ MainExcept
    \/ MainAfterLoop

Spec == Init /\ [][Next]_vars

SpecSearch == InitSearch /\ [][Next]_vars

SpecProcess == InitProcess /\ [][Next]_vars

\* the search over devices with a narrow within-margin band
InitBand ==
    /\ flagFile \in {"absent", "ON"}
    /\ paramsFile \in {p \in ParamsFiles : p.state = "absent"}
    /\ image = "unset"
    /\ device \in BandDevices
    /\ storage = "ok"
    /\ overlays = PlainOverlays
    /\ call = NoCall
    /\ InitProgram

SpecBand == InitBand /\ [][Next]_vars

-----------------------------------------------------------------------------
(* main as a whole *)

\* main from its start, with every behaviour of its collaborators, over a
\* camera that works in daylight, one that fails at each capture, one in the
\* dark, and flag files that make Camera() work or raise
InitMain ==
    /\ flagFile \in {"absent", "ON", "open_error"}
    /\ paramsFile \in {p \in ParamsFiles : p.state = "absent"}
    /\ image = "unset"
    /\ device \in {d \in Devices :
                     /\ d.first \in {13, MaxLuminance}
                     /\ d.ok_from = MIN_SHUTTER_SPEED
                     /\ d.bright_from \in {MIN_SHUTTER_SPEED, 1515000}}
    /\ storage = "ok"
    /\ overlays = PlainOverlays
    /\ steps \in [log_general_status : BOOLEAN,
                  set_locale : BOOLEAN,
                  load_configuration : {"ok", "none", "raise"},
                  apply_system_settings : BOOLEAN,
                  within_active_hours : {"True", "False", "None"},
                  update_configuration : {"none", "new", "raise"},
                  apply_new_settings : BOOLEAN,
                  download_overlay_images : {"True", "False", "raise"},
                  upload_picture : {"True", "False", "raise"},
                  cleanup_image_files : {"True", "False", "raise"},
                  restore_backup : {"True", "False", "raise"}]
    /\ call = NoCall
    /\ pc = "start"
    /\ no_errors = TRUE
    /\ step_failed = FALSE
    /\ InitCamera

(* main from "System check" to the camera loop; on a return or an exception
   the outer except and the finally block with the last log line *)
MainSetup ==
    /\ pc = "start"
    /\ LET su == Setup(steps)
       IN  /\ step_failed' = su.failed
           /\ IF su.exit = "loop"
              THEN /\ pc' = "main_loop"
                   /\ no_errors' = su.no_errors
                   /\ final_line' = final_line
              ELSE /\ pc' = "done"
                   /\ no_errors' = IF su.exit = "except"
                                   THEN OuterExcept(steps, su.config)
                                   ELSE su.no_errors
                   /\ final_line' = FinalLine(no_errors')
    /\ UNCHANGED <<env, attempt, camera, sleeps, succeeded, run, captures,
                   locals, photo, csv, logged, processed, raised, result,
                   canvas, call, ret>>

NextMain ==
    \/ MainSetup
    \/ MainAttempt
    \/ FirstShot
    \/ CorrectedShot
    \/ EnterCalibration
    \/ SearchIteration
    \/ ProcessPicture
    \/ MainExcept
    \/ MainAfterLoop

SpecMain == InitMain /\ [][NextMain]_vars

-----------------------------------------------------------------------------
(* The pure functions evaluated on their own *)

InitLum ==
    /\ flagFile = "absent"
    /\ paramsFile \in {p \in ParamsFiles : p.state = "absent"}
    /\ image = "unset"
    /\ device \in {d \in Devices : d.first = MaxLuminance /\ ~d.faulty}
    /\ storage = "ok"
    /\ overlays = PlainOverlays
    /\ call \in TargetCalls \cup ShutterCalls
    /\ InitProgram

EvalTargetLuminance ==
    /\ call.fn = "TARGET_LUMINANCE"
    /\ ret = NoReturn
    /\ ret' = <<TARGET_LUMINANCE(call.x), TARGET_LUMINANCE(call.y)>>
    /\ UNCHANGED <<env, pc, attempt, camera, sleeps, succeeded, run,
                   captures, locals, photo, csv, logged, processed, raised,
                   result, canvas, call, flags>>

EvalShutterSpeed ==
    /\ call.fn = "SHUTTER_SPEED_FROM_LUMINANCE"
    /\ ret = NoReturn
    /\ ret' = <<SHUTTER_SPEED_FROM_LUMINANCE_Scaled(call.x, call.a, call.b),
                SHUTTER_SPEED_FROM_LUMINANCE_Scaled(call.y, call.a, call.b)>>
    /\ UNCHANGED <<env, pc, attempt, camera, sleeps, succeeded, run,
                   captures, locals, photo, csv, logged, processed, raised,
                   result, canvas, call, flags>>

NextLum == EvalTargetLuminance \/ EvalShutterSpeed

SpecLum == InitLum /\ [][NextLum]_vars

-----------------------------------------------------------------------------
(* The calibration search *)

\* "bound to max 20 (see exit conditions)"
MAX_SEARCH_CAPTURES == 20

\* C1: in calibration mode the binary search ends after at most 20 search
\* captures whatever the measured luminances are: an iteration is pending
\* only while fewer than 20 have been made, and every iteration adds one.
C1_SearchBounded ==
    /\ i <= MAX_SEARCH_CAPTURES
    /\ captures <= MAX_SEARCH_CAPTURES + 1
    /\ pc = "search" => i < MAX_SEARCH_CAPTURES /\ captures = i + 1

\* the 20th capture was made and no shot was ever within the margin
C1_Witness ==
    /\ pc = "process"
    /\ result = "search_failed"
    /\ i = MAX_SEARCH_CAPTURES
    /\ logged = 0

\* C2 as stated: after an iteration outside the margin the search has
\* stopped whenever min_speed + 5 >= max_speed, equality included.
C2_StopsAtEquality ==
    (pc = "search" /\ i > 0) => ~(min_speed + 5 >= max_speed)

\* C2 amended: after an iteration outside the margin the search has stopped
\* exactly when min_speed + 5 > max_speed (at min_speed + 5 = max_speed it
\* goes on); it then keeps the photo of the last attempted shutter speed and
\* has written no results-log line.
C2_StopsWhenExhausted ==
    /\ (pc = "search" /\ i > 0) => ~(min_speed + 5 > max_speed)
    /\ (pc = "process" /\ result = "search_failed") =>
        /\ min_speed + 5 > max_speed
        /\ shutter_speed \in {min_speed, max_speed}
        /\ photo.shutter_speed = shutter_speed
        /\ photo.luminance = new_luminance
        /\ logged = 0

\* the search went on with min_speed + 5 = max_speed
C2_Witness ==
    /\ pc = "search"
    /\ i > 0
    /\ min_speed + 5 = max_speed

\* C3: at every capture of the search the attempted speed is the integer
\* midpoint of the bounds, MIN_SHUTTER_SPEED <= min_speed <= shutter_speed
\* <= max_speed <= MAX_SHUTTER_SPEED holds before and after the update, a
\* too dark shot raises only the lower bound to the midpoint and a too
\* bright one lowers only the upper bound to it.
C3_BoundsAndMidpoint ==
    [][(pc = "search" /\ captures' = captures + 1) =>
        /\ 2 * shutter_speed' <= min_speed + max_speed
        /\ 2 * shutter_speed' + 1 >= min_speed + max_speed
        /\ photo'.shutter_speed = shutter_speed'
        /\ MIN_SHUTTER_SPEED <= min_speed
        /\ min_speed <= shutter_speed'
        /\ shutter_speed' <= max_speed
        /\ max_speed <= MAX_SHUTTER_SPEED
        /\ MIN_SHUTTER_SPEED <= min_speed'
        /\ min_speed' <= shutter_speed'
        /\ shutter_speed' <= max_speed'
        /\ max_speed' <= MAX_SHUTTER_SPEED
        /\ (2 * new_luminance' < target_luminance - 2) =>
              min_speed' = shutter_speed' /\ max_speed' = max_speed
        /\ (2 * new_luminance' > target_luminance + 2) =>
              max_speed' = shutter_speed' /\ min_speed' = min_speed
        /\ (/\ 2 * new_luminance' >= target_luminance - 2
            /\ 2 * new_luminance' <= target_luminance + 2) =>
              min_speed' = min_speed /\ max_speed' = max_speed]_vars

\* both bounds have moved and another shot was taken between them
C3_Witness ==
    /\ pc = "search"
    /\ i >= 3
    /\ MIN_SHUTTER_SPEED < min_speed
    /\ min_speed < shutter_speed
    /\ shutter_speed = max_speed
    /\ max_speed < MAX_SHUTTER_SPEED

-----------------------------------------------------------------------------
(* The first shot and the low-light paths *)

\* C4: a first shot of luminance >= 60 is accepted in both modes: the call
\* makes exactly one capture, enters no low-light path and writes nothing
\* to the results log.
C4_DaylightAccepted ==
    (device.first >= 60 /\ captures >= 1) =>
        /\ captures = 1
        /\ logged = 0
        /\ pc \notin {"low_light", "search"}
        /\ result = "daylight"
        /\ raised \notin {"formula"}

\* a calibrating camera accepted a first shot of luminance exactly 60
C4_Witness ==
    /\ device.first = 60
    /\ Calibrate(camera)
    /\ pc = "process"
    /\ result = "daylight"
    /\ captures = 1
    /\ photo.shutter_speed = NoShutterSpeed

\* C5 as stated: in non-calibration mode, for every first-shot luminance
\* below 60 (0 included), with a device that does not fail, shoot_picture
\* makes exactly one more capture and returns normally.
C5_ReshootOnce ==
    (/\ ~device.faulty
     /\ camera.exists
     /\ ~Calibrate(camera)
     /\ device.first < 60
     /\ captures >= 1
     /\ pc # "low_light") =>
        /\ captures = 2
        /\ result = "reshot"
        /\ raised # "formula"

\* C6 as stated: the corrected shutter speed of the non-calibration path is
\* computed with the A and B of the override file when that file holds
\* them, and with the defaults 600000 and 60000 otherwise.
C6_OverrideUsed ==
    (pc = "process" /\ result = "reshot") =>
        shutter_speed =
            IF paramsFile.state = "valid"
            THEN (paramsFile.a \div luminance) + paramsFile.b
            ELSE (600000 \div luminance) + 60000

\* C7 as stated: whatever configuration.image holds, low light is handled
\* by the search exactly when the flag file exists and contains "ON", and
\* by the single reshoot otherwise.
C7_FlagAloneDecides ==
    /\ (pc = "search" \/ result \in {"calibrated", "search_failed"}) =>
          flagFile = "ON"
    /\ (result = "reshot" \/ raised = "formula") => flagFile # "ON"

\* C7 amended: when configuration.image has no "calibrate" key, low light is
\* handled by the search exactly when the flag file contains "ON" and by
\* the single reshoot otherwise; a "calibrate" key of configuration.image
\* decides the mode instead of the flag file.
C7_FlagDecidesWhenUnset ==
    LET searching == pc = "search" \/ result \in {"calibrated", "search_failed"}
        reshooting == result = "reshot" \/ raised = "formula"
    IN  /\ (image = "unset" /\ searching) => flagFile = "ON"
        /\ (image = "unset" /\ reshooting) => flagFile # "ON"
        /\ (image = "True") => ~reshooting
        /\ (image = "False") => ~searching
        /\ (pc = "low_light" /\ image = "unset") =>
              (ENABLED EnterCalibration <=> flagFile = "ON")

\* no "calibrate" key: one camera searches under flag "ON", another one
\* reshot once under a flag file with other content
C7_Witness ==
    /\ image = "unset"
    /\ \/ flagFile = "ON" /\ pc = "search" /\ i >= 1
       \/ flagFile = "OFF" /\ result = "reshot"

\* C8 as stated: no failure to open or read the flag file or the override
\* file makes the construction fail: the camera exists after the first
\* attempt, with calibration off unless configured and the default A and B.
C8_ConstructionNeverFails ==
    (attempt >= 1
     /\ (flagFile \in {"open_error", "read_error"}
         \/ paramsFile.state \in {"open_error", "malformed"})) =>
        /\ raised # "init"
        /\ camera.exists
        /\ (flagFile \in {"open_error", "read_error"} /\ image = "unset") =>
              ~Calibrate(camera)

\* C9: an exception of the capture device in any shot is not caught in
\* shoot_picture or take_picture: it reaches main's except clause and
\* process_picture does not run in that attempt.
C9_DeviceErrorPropagates ==
    (raised = "device") =>
        /\ processed = "no"
        /\ pc \in {"except", "main_loop", "done"}
        /\ pc # "except" => sleeps >= 1
        /\ result = "none"

\* the device raised in the third iteration of the search
C9_Witness ==
    /\ raised = "device"
    /\ pc = "except"
    /\ i = 3
    /\ captures = 3
    /\ processed = "no"

\* C10 as stated: at most 3 attempts, one cooldown after each failed one, no
\* attempt after a successful one, and when every attempt failed the run
\* is aborted without upload_picture.
C10_AbortWhenAllFail ==
    /\ attempt <= CAMERA_ATTEMPTS
    /\ succeeded => pc \in {"after_loop", "done"}
    /\ pc \in {"main_loop", "after_loop", "done"} =>
          sleeps = (IF succeeded THEN attempt - 1 ELSE attempt)
    /\ run = "uploaded" => succeeded
    /\ (pc = "done" /\ ~succeeded) => run = "aborted"

-----------------------------------------------------------------------------
(* Overlays *)

\* the six labels Overlay.__init__ takes
ValidLabels ==
    {<<v, h>> : v \in {"top", "bottom"}, h \in {"left", "center", "right"}}

LabelOf(slot) == [k \in DOMAIN slot.position |-> Lower(slot.position[k])]

MalformedLabel(slot) == LabelOf(slot) \notin ValidLabels

\* a slot that must contribute nothing: its label is malformed, its type is
\* missing or unrecognised, or its rendering fails
FaultySlot(slot) ==
    \/ MalformedLabel(slot)
    \/ slot.data.type \notin {"text", "image"}
    \/ slot.data.render # "ok"

\* C11: when process_picture has written the processed image, the overlays
\* pasted are exactly the slots that are not faulty (label well formed, type
\* text or image, rendering succeeded), in the order of the configuration,
\* each with its own size and anchor; a faulty slot contributes nothing and
\* does not stop the slots after it. With a storage that works,
\* process_picture always writes the image: no slot makes it raise.
C11_FaultySlotsDropped ==
    /\ processed = "written" =>
          LET good == SelectSeq(overlays, LAMBDA sl : ~FaultySlot(sl))
          IN  /\ Len(canvas.pastes) = Len(good)
              /\ \A k \in DOMAIN good :
                    /\ canvas.pastes[k].width = good[k].data.width
                    /\ canvas.pastes[k].height = good[k].data.height
                    /\ <<canvas.pastes[k].vertical_position,
                          canvas.pastes[k].horizontal_position>>
                       = LabelOf(good[k])
    /\ (storage = "ok" /\ pc \in {"after_loop", "done"} /\ succeeded) =>
          processed = "written"
    /\ storage = "ok" => raised # "save"

\* the image is written from a configuration whose first slot is faulty and
\* whose second slot is pasted
C11_Witness ==
    /\ processed = "written"
    /\ Len(overlays) = 2
    /\ FaultySlot(overlays[1])
    /\ ~FaultySlot(overlays[2])
    /\ Len(canvas.pastes) = 1

\* the configuration without its slots of malformed label
WithoutMalformed(ovs) == SelectSeq(ovs, LAMBDA sl : ~MalformedLabel(sl))

\* C12: the processed image written from a configuration is the one
\* process_picture builds from the same configuration without its slots of
\* malformed label: same size, same borders, same overlays pasted at the
\* same places.
C12_MalformedSlotChangesNothing ==
    processed = "written" =>
        canvas = ProcessedImage(WithoutMalformed(overlays), PhotoWidth,
                                PhotoHeight)

\* the image is written from a configuration with a slot "diagonal_left"
\* whose data would render, next to a slot that is pasted
C12_Witness ==
    /\ processed = "written"
    /\ \E k \in DOMAIN overlays :
          /\ overlays[k].position = <<"diagonal", "left">>
          /\ overlays[k].data.type = "image"
          /\ overlays[k].data.render = "ok"
          /\ ~overlays[k].data.over_the_picture
    /\ Len(WithoutMalformed(overlays)) = 1
    /\ Len(canvas.pastes) = 1

\* the heights of the slots that are rendered, anchored at this edge and not
\* over the picture
EdgeHeights(ovs, edge) ==
    {ovs[k].data.height : k \in
        {j \in DOMAIN ovs : /\ ~FaultySlot(ovs[j])
                            /\ LabelOf(ovs[j])[1] = edge
                            /\ ~ovs[j].data.over_the_picture}}

\* C13: the canvas is as wide as the photo and as high as the photo plus the
\* two borders; each border is the largest height among the rendered
\* overlays at that edge that are not over the picture, 0 without any; the
\* canvas is never lower than the photo, and the photo is at (0, border_top).
C13_CanvasSize ==
    processed = "written" =>
        /\ canvas.width = PhotoWidth
        /\ canvas.height = PhotoHeight + canvas.border_top + canvas.border_bottom
        /\ canvas.height >= PhotoHeight
        /\ canvas.photo_at = <<0, canvas.border_top>>
        /\ \A h \in EdgeHeights(overlays, "top") : h <= canvas.border_top
        /\ \A h \in EdgeHeights(overlays, "bottom") : h <= canvas.border_bottom
        /\ canvas.border_top \in EdgeHeights(overlays, "top") \cup {0}
        /\ canvas.border_bottom \in EdgeHeights(overlays, "bottom") \cup {0}
        /\ EdgeHeights(overlays, "top") = {} => canvas.border_top = 0
        /\ EdgeHeights(overlays, "bottom") = {} => canvas.border_bottom = 0

\* two top overlays of different heights, one of them over the picture: the
\* border is the height of the other one
C13_Witness ==
    /\ processed = "written"
    /\ Len(canvas.pastes) = 2
    /\ \A k \in 1..2 : canvas.pastes[k].vertical_position = "top"
    /\ canvas.pastes[1].over_the_picture
    /\ ~canvas.pastes[2].over_the_picture
    /\ canvas.pastes[1].height > canvas.pastes[2].height
    /\ canvas.border_top = canvas.pastes[2].height
    /\ canvas.height = PhotoHeight + canvas.pastes[2].height

\* C14 as stated: a centred overlay is at floor((canvas width - overlay
\* width) / 2), overlays wider than the canvas included.
C14_CenterFloored ==
    processed = "written" =>
        \A k \in DOMAIN canvas.pastes :
            LET o == canvas.pastes[k]
                d == canvas.width - o.width
            IN  o.horizontal_position = "center" =>
                    2 * o.at[1] <= d /\ d < 2 * o.at[1] + 2

\* C14: a left overlay is at x = 0, a right one at x = canvas width -
\* overlay width, a centred one at (canvas width - overlay width) / 2 with
\* the fraction dropped: rounded down when the overlay fits, rounded up
\* (toward zero) when the overlay is wider than the canvas.
C14_CenterTruncated ==
    processed = "written" =>
        \A k \in DOMAIN canvas.pastes :
            LET o == canvas.pastes[k]
                d == canvas.width - o.width
                x == o.at[1]
            IN  /\ o.horizontal_position = "left" => x = 0
                /\ o.horizontal_position = "right" => x = d
                /\ o.horizontal_position = "center" =>
                      IF d >= 0 THEN 2 * x <= d /\ d < 2 * x + 2
                      ELSE 2 * x - 2 < d /\ d <= 2 * x

\* a centred overlay wider than the canvas by an odd number of pixels
C14_Witness ==
    /\ processed = "written"
    /\ \E k \in DOMAIN canvas.pastes :
          /\ canvas.pastes[k].horizontal_position = "center"
          /\ canvas.pastes[k].width > canvas.width
          /\ (canvas.pastes[k].width - canvas.width) % 2 = 1

\* the 64x48 photo with a top_left overlay of height 20 not over the picture
\* and a bottom_right overlay over the picture
C15_Witness ==
    /\ processed = "written"
    /\ PhotoWidth = 64 /\ PhotoHeight = 48
    /\ Len(overlays) = 2
    /\ Len(canvas.pastes) = 2
    /\ overlays[1].position = <<"top", "left">>
    /\ overlays[1].data.height = 20
    /\ ~overlays[1].data.over_the_picture
    /\ overlays[2].position = <<"bottom", "right">>
    /\ overlays[2].data.over_the_picture

\* C15: a top overlay is at y = border_top when over the picture and at
\* y = 0 otherwise; a bottom overlay is at y = canvas height - overlay
\* height - border_bottom when over the picture and at canvas height -
\* overlay height otherwise. A 64x48 photo with a top_left overlay of height
\* 20 not over the picture and a bottom_right overlay over the picture
\* gives a canvas 68 high, the first at (0, 0), the second at
\* (64 - its width, 68 - its height).
C15_VerticalPlacement ==
    processed = "written" =>
        /\ \A k \in DOMAIN canvas.pastes :
              LET o == canvas.pastes[k]
                  y == o.at[2]
              IN  /\ (o.vertical_position = "top" /\ o.over_the_picture) =>
                        y = canvas.border_top
                  /\ (o.vertical_position = "top" /\ ~o.over_the_picture) =>
                        y = 0
                  /\ (o.vertical_position = "bottom" /\ o.over_the_picture) =>
                        y = canvas.height - o.height - canvas.border_bottom
                  /\ (o.vertical_position = "bottom" /\ ~o.over_the_picture) =>
                        y = canvas.height - o.height
        /\ C15_Witness =>
              /\ canvas.height = 68
              /\ canvas.pastes[1].at = <<0, 0>>
              /\ canvas.pastes[2].at = <<64 - canvas.pastes[2].width,
                                         68 - canvas.pastes[2].height>>

-----------------------------------------------------------------------------
(* The luminance functions.  Targets are carried doubled: 2 * target. *)

Evaluated(fn) == call.fn = fn /\ ret # NoReturn

\* C16 as stated: for all luminances x <= y, TARGET_LUMINANCE(x) <=
\* TARGET_LUMINANCE(y).
C16_Monotonic ==
    Evaluated("TARGET_LUMINANCE") => ret[1] <= ret[2]

\* C16: TARGET_LUMINANCE is lum + 30 below 30, lum / 2 + 45 from 30 to 60
\* included, and lum above 60.  It is non-decreasing up to 60 (29 gives 59,
\* 30 gives 60, 60 gives 75) and non-decreasing above 60, and it drops
\* across 60: 60 gives 75 and 61 gives 61.
C16_MonotonicApartFrom60 ==
    Evaluated("TARGET_LUMINANCE") =>
        /\ call.x < 30 => ret[1] = 2 * (call.x + 30)
        /\ (30 <= call.x /\ call.x <= 60) => ret[1] = call.x + 90
        /\ call.x > 60 => ret[1] = 2 * call.x
        /\ (call.y <= 60 \/ call.x > 60) => ret[1] <= ret[2]
        /\ call.y > 60 => ret[2] = 2 * call.y
        /\ call.x = 29 => ret[1] = 2 * 59
        /\ call.x = 30 => ret[1] = 2 * 60
        /\ call.x = 60 => ret[1] = 2 * 75
        /\ call.x = 61 => ret[1] = 2 * 61
        /\ (call.x = 60 /\ call.y = 61) => ret[1] > ret[2]

\* the function evaluated at 60 and at 61: 75 and 61
C16_Witness ==
    /\ Evaluated("TARGET_LUMINANCE")
    /\ call.x = 60
    /\ call.y = 61
    /\ ret = <<150, 122>>

\* the default parameters
DefaultParams ==
    call.a = LUM_SPEED_PARAM_A /\ call.b = LUM_SPEED_PARAM_B

\* C17 as stated: SHUTTER_SPEED_FROM_LUMINANCE(lum, 600000, 60000) is None
\* for every lum >= 60, is a value for every lum < 60, and for x < y < 60
\* the value at x is larger than the value at y.
C17_NoneOrStrictlyDecreasing ==
    (Evaluated("SHUTTER_SPEED_FROM_LUMINANCE") /\ DefaultParams) =>
        /\ call.x >= 60 * LumScale => ret[1].tag = "None"
        /\ call.x < 60 * LumScale => ret[1].tag = "int"
        /\ (call.x < call.y /\ call.y < 60 * LumScale) =>
              ret[1].value > ret[2].value

\* C18 as stated: for 0 < lum < 60 the result is A/lum + B rounded to the
\* nearest integer: it is at most one half away from A/lum + B.
C18_Rounded ==
    (/\ Evaluated("SHUTTER_SPEED_FROM_LUMINANCE")
     /\ 0 < call.x /\ call.x < 60 * LumScale) =>
        LET w == ret[1].value - call.b
            n == call.a * LumScale
        IN  /\ ret[1].tag = "int"
            /\ 2 * (w * call.x - n) <= call.x
            /\ 2 * (n - w * call.x) <= call.x

\* C18: for 0 < lum < 60 the result is A/lum + B with its fraction dropped
\* (truncated toward zero, as int() does): the whole number next to
\* A/lum + B on the side of zero.
C18_Truncated ==
    (/\ Evaluated("SHUTTER_SPEED_FROM_LUMINANCE")
     /\ 0 < call.x /\ call.x < 60 * LumScale) =>
        LET v == ret[1].value
            w == v - call.b
            n == call.a * LumScale
        IN  /\ ret[1].tag = "int"
            /\ v > 0 => w * call.x <= n /\ n < (w + 1) * call.x
            /\ v < 0 => (w - 1) * call.x < n /\ n <= w * call.x
            /\ v = 0 => (w - 1) * call.x < n /\ n < (w + 1) * call.x

\* luminance 13 with the default parameters: 600000/13 + 60000 =
\* 106153.85 gives 106153
C18_Witness ==
    /\ Evaluated("SHUTTER_SPEED_FROM_LUMINANCE")
    /\ DefaultParams
    /\ call.x = 13 * LumScale
    /\ ret[1] = [tag |-> "int", value |-> 106153]

-----------------------------------------------------------------------------
(* The calibration results log and the photo that cannot be opened *)

\* C19: when shoot_picture has returned, it has appended one line to the
\* calibration results log if it ran the search and the last shot was
\* within target +/- 1, and no line otherwise: none in daylight, none after
\* the single reshoot, none when the search ended on its bounds.  The line
\* holds the first luminance, the last luminance and the shutter speed of
\* the last capture.  No line is written while the search goes on or when
\* shoot_picture is left by an exception.
C19_OneLinePerConvergence ==
    /\ logged \in {0, 1}
    /\ logged <= Len(csv)
    /\ pc \in {"shoot", "low_light", "search"} => logged = 0
    /\ (pc = AfterRaise /\ raised # "save") => logged = 0
    /\ pc = "process" =>
          /\ logged = 1 <=> result = "calibrated"
          /\ result = "daylight" => luminance >= MINIMUM_DAYLIGHT_LUMINANCE
          /\ result = "reshot" => ~Calibrate(camera)
          /\ result \in {"calibrated", "search_failed"} =>
                /\ Calibrate(camera)
                /\ luminance < MINIMUM_DAYLIGHT_LUMINANCE
                /\ result = "calibrated" <=>
                      /\ 2 * new_luminance >= target_luminance - 2
                      /\ 2 * new_luminance <= target_luminance + 2
          /\ result = "calibrated" =>
                /\ csv[Len(csv)] = [luminance |-> luminance,
                                     new_luminance |-> new_luminance,
                                     shutter_speed |-> shutter_speed]
                /\ photo = [shutter_speed |-> shutter_speed,
                            luminance |-> new_luminance]

\* the search has ended within the margin at its third capture or later
C19_Witness ==
    /\ pc = "process"
    /\ result = "calibrated"
    /\ i >= 3
    /\ logged = 1
    /\ csv[Len(csv)].shutter_speed = photo.shutter_speed

\* C20: when the temp photo cannot be opened, process_picture gives up and
\* returns: no processed image is written (no canvas, no overlay pasted),
\* nothing is raised, and take_picture returns to main, which leaves its
\* loop as after a picture that was processed.
C20_UnreadablePhotoAbandoned ==
    processed = "abandoned" =>
        /\ canvas = NoCanvas
        /\ raised = "none"
        /\ succeeded
        /\ pc \in {"after_loop", "done"}

\* the photo could not be opened under a configuration with an overlay that
\* would have been pasted
C20_Witness ==
    /\ processed = "abandoned"
    /\ \E k \in DOMAIN overlays : ~FaultySlot(overlays[k])
    /\ canvas.pastes = <<>>
    /\ pc = "after_loop"

-----------------------------------------------------------------------------
(* What main hands to upload_picture *)

\* C21 as stated: whenever take_picture has returned without raising, the
\* processed image was written during that call: the file main passes to
\* upload_picture is the canvas process_picture built from this photo.
C21_ReturnedMeansWritten ==
    succeeded =>
        /\ processed = "written"
        /\ canvas = ProcessedImage(overlays, PhotoWidth, PhotoHeight)

-----------------------------------------------------------------------------
(* The last log line of main *)

\* C22 as stated: when a step of main has reported a failure (a step
\* function returned a false result, all camera attempts failed, or an
\* exception reached the outer handler), the last log line says "with
\* errors"; it says "successfully" only when no step reported a failure.
C22_FailureMeansWithErrors ==
    final_line # "" =>
        /\ step_failed => final_line = "with errors"
        /\ final_line = "successfully" => ~step_failed

-----------------------------------------------------------------------------
(* Completeness of the calibration search *)

\* the lowest and the highest shutter speed of [MIN_SHUTTER_SPEED,
\* MAX_SHUTTER_SPEED] at which the device is within the margin (none when
\* BandLow > BandHigh)
BandLow ==
    IF device.ok_from > MIN_SHUTTER_SPEED THEN device.ok_from
    ELSE MIN_SHUTTER_SPEED

BandHigh ==
    IF device.bright_from - 1 < MAX_SHUTTER_SPEED THEN device.bright_from - 1
    ELSE MAX_SHUTTER_SPEED

SearchFailed == pc = "process" /\ result = "search_failed"

\* C23 as stated: with a device whose luminance is a deterministic
\* non-decreasing function of the shutter speed, a search that ended on its
\* bounds means that no shutter speed of [MIN_SHUTTER_SPEED,
\* MAX_SHUTTER_SPEED] is within the margin.
C23_FailedMeansNoSpeed ==
    (SearchFailed /\ device.kind = "mono") => BandLow > BandHigh

\* C23: with such a device, a search that ended on its bounds means that no
\* shutter speed it tried is within the margin, and that the speeds within
\* the margin, if there are any, are fewer than 5 and lie in the last
\* window [min_speed, max_speed], which is less than 5 wide; whenever 5 or
\* more consecutive speeds are within the margin the search ends with a
\* shot within the margin.
C23_FailedOnlyOnNarrowBand ==
    /\ (SearchFailed /\ device.kind = "mono") =>
          /\ max_speed - min_speed < 5
          /\ ~(device.ok_from <= shutter_speed
                 /\ shutter_speed < device.bright_from)
          /\ BandLow <= BandHigh =>
                /\ BandHigh - BandLow + 1 < 5
                /\ min_speed <= BandLow
                /\ BandHigh <= max_speed
    /\ (/\ pc = "process"
        /\ result \in {"calibrated", "search_failed"}
        /\ device.kind = "mono"
        /\ BandHigh - BandLow + 1 >= 5) => result = "calibrated"

\* the search has ended on its bounds although the device is within the
\* margin at MIN_SHUTTER_SPEED, which the search never tries
C23_Witness ==
    /\ SearchFailed
    /\ device.kind = "mono"
    /\ BandLow = MIN_SHUTTER_SPEED
    /\ BandHigh >= BandLow
    /\ min_speed = MIN_SHUTTER_SPEED

====
